---------------------------- MODULE Spec2Model ----------------------------
(***************************************************************************)
(* Model of the VGA text-mode console of rust_os: src/vga_buffer.rs (the   *)
(* Writer, its memory-mapped Buffer and the global spin-locked WRITER) and *)
(* src/main.rs (the entry point and the panic handler).                    *)
(*                                                                         *)
(* Bytes are integers 0..255, a string is the sequence of its UTF-8 bytes. *)
(* The grid is scaled down: BUFFER_HEIGHT is 25 and BUFFER_WIDTH is 80 in  *)
(* the source (vga_buffer.rs:47-48); the model keeps HEIGHT < WIDTH, which *)
(* is the relation clear_row's loop bound depends on.                      *)
(***************************************************************************)
EXTENDS Integers, Sequences, FiniteSets, TLC

\* Scaled-down grid (source: 25 rows, 80 columns).
BUFFER_HEIGHT == 3
BUFFER_WIDTH == 4
\* How many Writer operations one behaviour of Spec performs.
MaxOps == 3

Rows == 0..(BUFFER_HEIGHT - 1)
Cols == 0..(BUFFER_WIDTH - 1)

NEWLINE == 10
SUBSTITUTE == 254

\* enum Color, #[repr(u8)]
Black == 0
White == 15
Yellow == 14

RECURSIVE BitOr8(_, _, _)
\* Bitwise OR of two u8 values, bit by bit (n bits left to do).
BitOr8(a, b, n) ==
    IF n = 0 THEN 0
    ELSE (IF (a % 2 = 1) \/ (b % 2 = 1) THEN 1 ELSE 0)
         + 2 * BitOr8(a \div 2, b \div 2, n - 1)

\* u8 << 4 (bits shifted out are lost)
Shl4 == [x \in 0..255 |-> (x * 16) % 256]

\* ColorCode::new with the two colours taken for one another.
ColorCode_new_swapped(foreground, background) ==
    BitOr8(Shl4[foreground], background, 8)

\* ColorCode::new: (background as u8) << 4 | (foreground as u8)
ColorCode_new(foreground, background) ==
    BitOr8(Shl4[background], foreground, 8)

\* struct ScreenChar
ScreenChar(byte, cc) == [ascii_character |-> byte, color_code |-> cc]

(***************************************************************************)
(* A Writer at work is the record m: the Writer's fields, the Buffer it    *)
(* points to (chars), and what the running operation did so far: trace is  *)
(* the sequence of its buffer accesses and control events, scrolls the     *)
(* number of shift_up calls, oob whether an index failed Rust's bounds     *)
(* check: that panics, and nothing more of the operation is executed.      *)
(***************************************************************************)
InBounds(r, c) == r \in Rows /\ c \in Cols

Event(kind, r, c, v) == [k |-> kind, r |-> r, c |-> c, v |-> v]

\* A buffer access: the cell's place, its character and its attribute.
CellEvent(kind, r, c, cell) ==
    [k |-> kind, r |-> r, c |-> c, v |-> cell.ascii_character,
     a |-> cell.color_code]

\* The operation's record of what it did, kept when m.tracing.
Log(m, e) == IF m.tracing THEN Append(m.trace, e) ELSE m.trace

\* self.buffer.chars[r][c].write(v); tag names the caller's loop
buffer_write(m, r, c, v, tag) ==
    IF InBounds(r, c)
    THEN [m EXCEPT !.chars[r][c] = v,
                   !.trace = Log(m, CellEvent(tag, r, c, v))]
    ELSE [m EXCEPT !.oob = TRUE,
                   !.trace = Log(m, CellEvent(tag, r, c, v))]

\* self.buffer.chars[r][c].read(): the value (an out-of-range read panics
\* before any value exists; the record returned then is never stored)
buffer_read(m, r, c) ==
    IF InBounds(r, c) THEN m.chars[r][c] ELSE ScreenChar(0, 0)

buffer_read_log(m, r, c) ==
    [m EXCEPT !.oob = @ \/ ~InBounds(r, c),
              !.trace = Log(m, CellEvent("read", r, c, buffer_read(m, r, c)))]

RECURSIVE clear_row_loop(_, _, _, _)
clear_row_loop(m, row, blank, col) ==
    IF m.oob \/ col >= BUFFER_HEIGHT THEN m
    ELSE clear_row_loop(buffer_write(m, row, col, blank, "clear"), row, blank, col + 1)

\* clear_row that blanks with light gray on black, whatever the writer's
\* color_code.
clear_row_light_gray(m, row) ==
    clear_row_loop(m, row, ScreenChar(32, 7), 0)

\* Writer::clear_row: for col in 0..BUFFER_HEIGHT
clear_row(m, row) ==
    clear_row_loop(m, row, ScreenChar(32, m.color_code), 0)

RECURSIVE shift_up_loop_bottom_first(_, _, _)
\* shift_up's copy done from the last row upwards (each source row is
\* overwritten before it is read).
shift_up_loop_bottom_first(m, row, col) ==
    IF m.oob \/ row >= BUFFER_HEIGHT THEN m
    ELSE IF col >= BUFFER_WIDTH THEN shift_up_loop_bottom_first(m, row + 1, 0)
    ELSE LET src == BUFFER_HEIGHT - row
             v == buffer_read(m, src, col)
             m1 == buffer_read_log(m, src, col)
         IN shift_up_loop_bottom_first(
                buffer_write(m1, src - 1, col, v, "shift"), row, col + 1)

RECURSIVE shift_up_loop_by_column(_, _, _)
\* shift_up's copy done column after column instead of row after row.
shift_up_loop_by_column(m, row, col) ==
    IF m.oob \/ col >= BUFFER_WIDTH THEN m
    ELSE IF row >= BUFFER_HEIGHT THEN shift_up_loop_by_column(m, 1, col + 1)
    ELSE LET v == buffer_read(m, row, col)
             m1 == buffer_read_log(m, row, col)
         IN shift_up_loop_by_column(
                buffer_write(m1, row - 1, col, v, "shift"), row + 1, col)

RECURSIVE shift_up_loop(_, _, _)
shift_up_loop(m, row, col) ==
    IF m.oob \/ row >= BUFFER_HEIGHT THEN m
    ELSE IF col >= BUFFER_WIDTH THEN shift_up_loop(m, row + 1, 0)
    ELSE LET v == buffer_read(m, row, col)
             m1 == buffer_read_log(m, row, col)
         IN shift_up_loop(buffer_write(m1, row - 1, col, v, "shift"), row, col + 1)

\* Writer::shift_up: rows 1..BUFFER_HEIGHT copied one up, then the last cleared
shift_up(m) ==
    clear_row(shift_up_loop([m EXCEPT !.scrolls = @ + 1], 1, 0), BUFFER_HEIGHT - 1)

\* new_line that leaves the column where it was.
new_line_no_return(m) ==
    LET m1 == [m EXCEPT !.row_position = @ + 1]
    IN IF m1.row_position >= BUFFER_HEIGHT
       THEN [shift_up(m1) EXCEPT !.row_position = BUFFER_HEIGHT - 1]
       ELSE m1

\* new_line without the pin of row_position to the last row.
new_line_unpinned(m) ==
    LET m1 == [m EXCEPT !.row_position = @ + 1]
        m2 == IF m1.row_position >= BUFFER_HEIGHT
              THEN [shift_up(m1) EXCEPT !.row_position = m1.row_position]
              ELSE m1
    IN [m2 EXCEPT !.column_position = 0]

\* Writer::new_line
new_line(m) ==
    LET m1 == [m EXCEPT !.row_position = @ + 1]
        m2 == IF m1.row_position >= BUFFER_HEIGHT
              THEN [shift_up(m1) EXCEPT !.row_position = BUFFER_HEIGHT - 1]
              ELSE m1
    IN [m2 EXCEPT !.column_position = 0]

\* write_byte with the substitution of write_string done here as well.
write_byte_sanitizing(m, byte) ==
    IF byte = NEWLINE
    THEN new_line([m EXCEPT !.trace = Log(m, Event("newline", m.row_position, m.column_position, byte))])
    ELSE LET m1 == IF m.column_position >= BUFFER_WIDTH
                   THEN new_line([m EXCEPT !.trace = Log(m, Event("wrap", m.row_position, m.column_position, byte))])
                   ELSE m
             b == IF byte >= 32 /\ byte <= 126 THEN byte ELSE SUBSTITUTE
             m2 == buffer_write(m1, m1.row_position, m1.column_position,
                                ScreenChar(b, m1.color_code), "put")
         IN [m2 EXCEPT !.column_position = @ + 1]

\* write_byte that advances the line as soon as the last column is filled.
write_byte_eager_wrap(m, byte) ==
    IF byte = NEWLINE
    THEN new_line([m EXCEPT !.trace = Log(m, Event("newline", m.row_position, m.column_position, byte))])
    ELSE LET m2 == buffer_write(m, m.row_position, m.column_position,
                                ScreenChar(byte, m.color_code), "put")
             m3 == [m2 EXCEPT !.column_position = @ + 1]
         IN IF m3.column_position >= BUFFER_WIDTH
            THEN new_line([m3 EXCEPT !.trace = Log(m3, Event("wrap", m3.row_position, m3.column_position, byte))])
            ELSE m3

\* write_byte that also blanks the cell after the one it stores (the place
\* of a cursor), when there is one on the row.
write_byte_blanking_next(m, byte) ==
    IF byte = NEWLINE
    THEN new_line([m EXCEPT !.trace = Log(m, Event("newline", m.row_position, m.column_position, byte))])
    ELSE LET m1 == IF m.column_position >= BUFFER_WIDTH
                   THEN new_line([m EXCEPT !.trace = Log(m, Event("wrap", m.row_position, m.column_position, byte))])
                   ELSE m
             m2 == buffer_write(m1, m1.row_position, m1.column_position,
                                ScreenChar(byte, m1.color_code), "put")
             m3 == IF m1.column_position + 1 < BUFFER_WIDTH
                   THEN buffer_write(m2, m1.row_position, m1.column_position + 1,
                                     ScreenChar(32, m1.color_code), "put")
                   ELSE m2
         IN [m3 EXCEPT !.column_position = @ + 1]

\* Writer::write_byte
write_byte(m, byte) ==
    IF byte = NEWLINE
    THEN new_line([m EXCEPT !.trace = Log(m, Event("newline", m.row_position, m.column_position, byte))])
    ELSE LET m1 == IF m.column_position >= BUFFER_WIDTH
                   THEN new_line([m EXCEPT !.trace = Log(m, Event("wrap", m.row_position, m.column_position, byte))])
                   ELSE m
             m2 == buffer_write(m1, m1.row_position, m1.column_position,
                                ScreenChar(byte, m1.color_code), "put")
         IN [m2 EXCEPT !.column_position = @ + 1]

RECURSIVE write_string_loop_dropping(_, _, _)
\* write_string that skips the bytes it cannot display.
write_string_loop_dropping(m, s, i) ==
    IF m.oob \/ i > Len(s) THEN m
    ELSE LET byte == s[i]
         IN write_string_loop_dropping(
                IF (byte >= 32 /\ byte <= 126) \/ byte = NEWLINE
                THEN write_byte(m, byte)
                ELSE m,
                s, i + 1)

RECURSIVE write_string_loop(_, _, _)
write_string_loop(m, s, i) ==
    IF m.oob \/ i > Len(s) THEN m
    ELSE LET byte == s[i]
         IN write_string_loop(
                IF (byte >= 32 /\ byte <= 126) \/ byte = NEWLINE
                THEN write_byte(m, byte)
                ELSE write_byte(m, SUBSTITUTE),
                s, i + 1)

\* write_string that passes the bytes of its string last byte first.
write_string_reversed(m, s) ==
    write_string_loop(m, [i \in 1..Len(s) |-> s[Len(s) + 1 - i]], 1)

\* Writer::write_string: for byte in s.bytes()
write_string(m, s) == write_string_loop(m, s, 1)

\* write_str that reports an error when it had to substitute a byte.
write_str_strict(m, s) ==
    [m |-> write_string(m, s),
     res |-> IF \E i \in 1..Len(s) : s[i] # NEWLINE /\ (s[i] < 32 \/ s[i] > 126)
             THEN "Err" ELSE "Ok"]

\* impl fmt::Write for Writer: write_str
write_str(m, s) == [m |-> write_string(m, s), res |-> "Ok"]


(***************************************************************************)
(* State.  chars is the memory at 0xb8000; column_position, row_position   *)
(* and color_code are the Writer's fields.  op, pre, trace, scrolls, oob   *)
(* and result record the last operation: what was called, the state it     *)
(* started from, what it did and what it returned.                         *)
(*                                                                         *)
(* The global WRITER: locked is the spin::Mutex's flag, guards the         *)
(* contexts that own a MutexGuard, pc and pending where each execution     *)
(* context is and the pieces its write_fmt has still to pass to write_str, *)
(* inPanic the contexts whose panic handler runs.  instances counts the    *)
(* Writers bound to 0xb8000, access names the context of the last buffer   *)
(* access and whether it owned a guard, wlog lists, per write through the  *)
(* WRITER, the context and the number of the lock acquisition it was made  *)
(* under.  WRITER_init is lazy_static's Once: whether WRITER was built.    *)
(* calls lists the calls made on the Writer itself; printing is, for the   *)
(* print call a context is in, its whole text (the pieces).                *)
(***************************************************************************)
VARIABLES chars, column_position, row_position, color_code,
          op, pre, trace, scrolls, oob, result, calls, nops,
          locked, guards, pc, pending, inPanic,
          instances, access, acquisitions, session, wlog, ncalls,
          WRITER_init, printing

wvars == <<chars, column_position, row_position, color_code,
           op, pre, trace, scrolls, oob, result, calls>>

svars == <<locked, guards, pc, pending, inPanic,
           instances, access, acquisitions, session, wlog, ncalls,
           WRITER_init, printing>>

vars == <<wvars, nops, svars>>

\* Execution contexts that may print (the normal path of a CPU, and whatever
\* else the Sync WRITER is shared with).
NumContexts == 2
\* How many calls (print!/println!/write!/print_something) one behaviour of
\* SysSpec starts.
MaxCalls == 2

Contexts == 1..NumContexts

\* What the display memory holds before the first write is not the
\* program's doing: a pattern with a different character in every cell
\* (light gray on black), or all zero bytes.
PatternGrid ==
    [r \in Rows |-> [c \in Cols |-> ScreenChar(97 + r * BUFFER_WIDTH + c, 7)]]

ZeroGrid == [r \in Rows |-> [c \in Cols |-> ScreenChar(0, 0)]]

InitGrids == { PatternGrid, ZeroGrid }

\* WRITER's color_code (vga_buffer.rs:81)
WRITER_color == ColorCode_new(Black, White)

\* print_something's writer's color_code (vga_buffer.rs:190)
print_something_color == ColorCode_new(Yellow, Black)

\* The two Writer constructions of the source.
WriterColors == { WRITER_color, print_something_color }

\* Bytes handed to write_byte: newline, the ends of the printable range and
\* their neighbours, control bytes, a letter, a UTF-8 lead byte, 0xFF.
Bytes == { 0, NEWLINE, 31, 32, 65, 126, 127, 195, 255 }

\* A line of exactly BUFFER_WIDTH printable bytes.
Line == [i \in 1..BUFFER_WIDTH |-> 108 + i]

\* Strings handed to write_string / write_str: "AB\n", "C", "e-acute" (two
\* UTF-8 bytes), "a\n\t\n", "a\tb", a full line.
Strings ==
    { <<65, 66, NEWLINE>>, <<67>>, <<195, 169>>, <<97, NEWLINE, 9, NEWLINE>>,
      <<97, 9, 98>>, Line }

\* What write_fmt passes to write_str, piece by piece, for the calls of the
\* program: one literal ("Hi\n", as WRITER.lock().write_str(..) in _start),
\* and a format with an argument ("n=", "42", "\n", as write!/println!).
Formats ==
    { << <<72, 105, NEWLINE>> >>,
      << <<110, 61>>, <<52, 50>>, <<NEWLINE>> >> }

\* The pieces of the panic handler's println!("{}", info): the message, "\n".
PanicMessage == << <<112, 33>>, <<NEWLINE>> >>

Cur ==
    [column_position |-> column_position, row_position |-> row_position,
     color_code |-> color_code, chars |-> chars,
     trace |-> <<>>, tracing |-> TRUE, scrolls |-> 0, oob |-> FALSE]

Pre ==
    [chars |-> chars, row_position |-> row_position,
     column_position |-> column_position, color_code |-> color_code]

Call(name, byte, s) == [name |-> name, byte |-> byte, s |-> s]

Init ==
    /\ chars \in InitGrids
    /\ column_position = 0
    /\ row_position = 0
    /\ color_code \in WriterColors
    /\ op = Call("new", 0, <<>>)
    /\ pre = [chars |-> chars, row_position |-> 0, column_position |-> 0,
              color_code |-> color_code]
    /\ trace = <<>>
    /\ scrolls = 0
    /\ oob = FALSE
    /\ result = "none"
    /\ calls = <<>>
    /\ nops = 0
    /\ locked = FALSE
    /\ guards = {}
    /\ pc = [c \in Contexts |-> "run"]
    /\ pending = [c \in Contexts |-> <<>>]
    /\ inPanic = [c \in Contexts |-> FALSE]
    /\ instances = 0
    /\ access = [ctx |-> 0, guard |-> TRUE]
    /\ acquisitions = 0
    /\ session = [c \in Contexts |-> 0]
    /\ wlog = <<>>
    /\ ncalls = 0
    /\ WRITER_init = FALSE
    /\ printing = [c \in Contexts |-> <<>>]

\* The state after an operation that ended in m.
Commit(m, call, res) ==
    /\ chars' = m.chars
    /\ column_position' = m.column_position
    /\ row_position' = m.row_position
    /\ color_code' = m.color_code
    /\ trace' = m.trace
    /\ scrolls' = m.scrolls
    /\ oob' = m.oob
    /\ op' = call
    /\ pre' = Pre
    /\ result' = res

(***************************************************************************)
(* Spec: one Writer driven through its public methods by its owner.        *)
(***************************************************************************)
WriteByte(b) ==
    /\ nops < MaxOps
    /\ ~oob
    /\ Commit(write_byte(Cur, b), Call("write_byte", b, <<>>), "none")
    /\ calls' = Append(calls, Call("write_byte", b, <<>>))
    /\ nops' = nops + 1
    /\ UNCHANGED svars

WriteString(s) ==
    /\ nops < MaxOps
    /\ ~oob
    /\ Commit(write_string(Cur, s), Call("write_string", 0, s), "none")
    /\ calls' = Append(calls, Call("write_string", 0, s))
    /\ nops' = nops + 1
    /\ UNCHANGED svars

WriteStr(s) ==
    /\ nops < MaxOps
    /\ ~oob
    /\ LET r == write_str(Cur, s)
       IN Commit(r.m, Call("write_str", 0, s), r.res)
    /\ calls' = Append(calls, Call("write_str", 0, s))
    /\ nops' = nops + 1
    /\ UNCHANGED svars

Next ==
    \/ \E b \in Bytes : WriteByte(b)
    \/ \E s \in Strings : WriteString(s)
    \/ \E s \in Strings : WriteStr(s)

Spec == Init /\ [][Next]_vars


(***************************************************************************)
(* SysSpec: the contexts of the program printing through the global        *)
(* WRITER (print!, println!, write!(WRITER.lock(), ..)), the panic handler *)
(* and print_something.                                                    *)
(***************************************************************************)

\* print_something's literal (vga_buffer.rs:194) is twenty one-character
\* lines and four empty ones: BUFFER_HEIGHT - 1 newlines, which take the
\* cursor to the last row without a scroll.  Scaled with the grid:
\* BUFFER_HEIGHT - 2 one-character lines ("A\n", "B\n", ..) and an empty one.
print_something_text ==
    LET n == BUFFER_HEIGHT - 1
    IN [i \in 1..(2 * n - 1) |->
          IF i % 2 = 0 \/ i = 2 * n - 1 THEN NEWLINE ELSE 65 + (i \div 2)]

\* The pieces of write!(writer, "the numbers are {} and {}\n\n", 42, 10 / 3):
\* a line shorter than BUFFER_WIDTH in four pieces, and "\n\n".  Scaled with
\* the grid: "4", "&", "3", "\n\n".
print_something_pieces ==
    << << 52 >>, << 38 >>, << 51 >>, << NEWLINE, NEWLINE >> >>

RECURSIVE write_fmt(_, _, _)
\* core::fmt::write over a Writer: write_str per piece, stopping at an Err
write_fmt(m, pieces, i) ==
    IF m.oob \/ i > Len(pieces) THEN [m |-> m, res |-> "Ok"]
    ELSE LET r == write_str(m, pieces[i])
         IN IF r.res = "Ok" THEN write_fmt(r.m, pieces, i + 1) ELSE r

\* _print / write!(WRITER.lock(), ..) is entered: WRITER is dereferenced
\* (built on the first use) and lock() is called.
CallPrint(c, f) ==
    /\ pc[c] = "run"
    /\ ncalls < MaxCalls
    /\ ncalls' = ncalls + 1
    /\ pc' = [pc EXCEPT ![c] = "lock"]
    /\ pending' = [pending EXCEPT ![c] = f]
    /\ printing' = [printing EXCEPT ![c] = f]
    /\ WRITER_init' = TRUE
    /\ instances' = IF WRITER_init THEN instances ELSE instances + 1
    /\ UNCHANGED <<wvars, nops, locked, guards, inPanic, access,
                   acquisitions, session, wlog>>

\* lock() that takes the lock without testing the flag.
Acquire_unchecked(c) ==
    /\ pc[c] = "lock"
    /\ locked' = TRUE
    /\ guards' = guards \cup {c}
    /\ pc' = [pc EXCEPT ![c] = "fmt"]
    /\ acquisitions' = acquisitions + 1
    /\ session' = [session EXCEPT ![c] = acquisitions + 1]
    /\ UNCHANGED <<wvars, nops, pending, inPanic, instances, access,
                   wlog, ncalls, WRITER_init, printing>>

\* spin::Mutex::lock: the compare-and-swap of the flag succeeds only on a
\* free lock; until then the caller spins (no step).
Acquire(c) ==
    /\ pc[c] = "lock"
    /\ ~locked
    /\ locked' = TRUE
    /\ guards' = guards \cup {c}
    /\ pc' = [pc EXCEPT ![c] = "fmt"]
    /\ acquisitions' = acquisitions + 1
    /\ session' = [session EXCEPT ![c] = acquisitions + 1]
    /\ UNCHANGED <<wvars, nops, pending, inPanic, instances, access,
                   wlog, ncalls, WRITER_init, printing>>

\* write_fmt over a lock taken for each piece: the guard is dropped after
\* every write_str and lock() is called again for the next piece.
WriteStrStep_lock_per_piece(c) ==
    /\ pc[c] = "fmt"
    /\ pending[c] # <<>>
    /\ LET r == write_str(Cur, Head(pending[c]))
       IN Commit(r.m, Call("write_str", 0, Head(pending[c])), r.res)
    /\ pending' = [pending EXCEPT ![c] = Tail(@)]
    /\ pc' = [pc EXCEPT ![c] = IF Tail(pending[c]) = <<>> THEN "fmt" ELSE "lock"]
    /\ locked' = (Tail(pending[c]) = <<>>)
    /\ guards' = IF Tail(pending[c]) = <<>> THEN guards ELSE guards \ {c}
    /\ access' = [ctx |-> c, guard |-> c \in guards]
    /\ wlog' = Append(wlog, [ctx |-> c, session |-> session[c],
                             s |-> Head(pending[c])])
    /\ UNCHANGED <<calls, nops, inPanic, printing, instances,
                   acquisitions, session, ncalls, WRITER_init>>

\* write_fmt hands the next piece to write_str; an Err ends write_fmt and
\* unwrap() panics, the guard still alive.
WriteStrStep(c) ==
    /\ pc[c] = "fmt"
    /\ pending[c] # <<>>
    /\ access' = [ctx |-> c, guard |-> c \in guards]
    /\ wlog' = Append(wlog, [ctx |-> c, session |-> session[c],
                             s |-> Head(pending[c])])
    /\ LET r == write_str(Cur, Head(pending[c]))
       IN /\ Commit(r.m, Call("write_str", 0, Head(pending[c])), r.res)
          /\ IF r.res = "Ok"
             THEN /\ pending' = [pending EXCEPT ![c] = Tail(@)]
                  /\ UNCHANGED <<pc, inPanic, printing>>
             ELSE /\ pending' = [pending EXCEPT ![c] = PanicMessage]
                  /\ printing' = [printing EXCEPT ![c] = PanicMessage]
                  /\ pc' = [pc EXCEPT ![c] = "lock"]
                  /\ inPanic' = [inPanic EXCEPT ![c] = TRUE]
    /\ UNCHANGED <<calls, nops, locked, guards, instances, acquisitions,
                   session, ncalls, WRITER_init>>

\* The MutexGuard is dropped at the end of the statement; the panic handler
\* then enters loop {} (main.rs:14).
\* The MutexGuard's drop without the store that frees the lock.
Release_keeping_flag(c) ==
    /\ pc[c] = "fmt"
    /\ pending[c] = <<>>
    /\ guards' = guards \ {c}
    /\ pc' = [pc EXCEPT ![c] = IF inPanic[c] THEN "halt" ELSE "run"]
    /\ printing' = [printing EXCEPT ![c] = <<>>]
    /\ UNCHANGED <<wvars, nops, locked, pending, inPanic, instances, access,
                   acquisitions, session, wlog, ncalls, WRITER_init>>

Release(c) ==
    /\ pc[c] = "fmt"
    /\ pending[c] = <<>>
    /\ locked' = FALSE
    /\ guards' = guards \ {c}
    /\ pc' = [pc EXCEPT ![c] = IF inPanic[c] THEN "halt" ELSE "run"]
    /\ printing' = [printing EXCEPT ![c] = <<>>]
    /\ UNCHANGED <<wvars, nops, pending, inPanic, instances, access,
                   acquisitions, session, wlog, ncalls, WRITER_init>>

\* A panic in context c: panic!() in its own code (main.rs:57), or the
\* Display of a formatted argument panicking inside write_fmt.  Nothing
\* unwinds: a guard c owns is never dropped.  The handler (main.rs:12-15)
\* calls println!("{}", info).
Panic(c) ==
    /\ ~inPanic[c]
    /\ pc[c] \in {"run", "fmt"}
    /\ inPanic' = [inPanic EXCEPT ![c] = TRUE]
    /\ pc' = [pc EXCEPT ![c] = "lock"]
    /\ pending' = [pending EXCEPT ![c] = PanicMessage]
    /\ printing' = [printing EXCEPT ![c] = PanicMessage]
    /\ WRITER_init' = TRUE
    /\ instances' = IF WRITER_init THEN instances ELSE instances + 1
    /\ UNCHANGED <<wvars, nops, locked, guards, access, acquisitions,
                   session, wlog, ncalls>>

\* pub fn print_something: a second Writer over the same memory, its own
\* cursor and colour, no lock.
PrintSomething(c) ==
    /\ pc[c] = "run"
    /\ ncalls < MaxCalls
    /\ ncalls' = ncalls + 1
    /\ LET writer == [column_position |-> 0, row_position |-> 0,
                      color_code |-> print_something_color, chars |-> chars,
                      trace |-> <<>>, tracing |-> FALSE, scrolls |-> 0,
                      oob |-> FALSE]
           r == write_fmt(write_string(writer, print_something_text),
                          print_something_pieces, 1)
       IN /\ chars' = r.m.chars
          /\ trace' = r.m.trace
          /\ scrolls' = r.m.scrolls
          /\ oob' = r.m.oob
          /\ result' = r.res
    /\ op' = Call("print_something", 0, <<>>)
    /\ pre' = Pre
    /\ instances' = instances + 1
    /\ access' = [ctx |-> c, guard |-> c \in guards]
    /\ UNCHANGED <<column_position, row_position, color_code, calls, nops,
                   locked, guards, pc, pending, inPanic, acquisitions,
                   session, wlog, WRITER_init, printing>>

\* WF_vars(WriteStrStep(c)), with ENABLED written out as the condition
\* under which the step can be taken: the context is in write_fmt and has
\* pieces left.
WriteFair(c) ==
    \/ []<>~(pc[c] = "fmt" /\ pending[c] # <<>>)
    \/ []<><<WriteStrStep(c)>>_vars

SysNext ==
    \/ \E c \in Contexts, f \in Formats : CallPrint(c, f)
    \/ \E c \in Contexts : Acquire(c)
    \/ \E c \in Contexts : WriteStrStep(c)
    \/ \E c \in Contexts : Release(c)
    \/ \E c \in Contexts : Panic(c)
    \/ \E c \in Contexts : PrintSomething(c)

\* The program's WRITER over the memory as the firmware left it.
SysInit == Init /\ color_code = WRITER_color /\ chars = PatternGrid

\* Every context keeps executing: a step it can take for good is taken.
SysSpec ==
    /\ SysInit /\ [][SysNext]_vars
    /\ \A c \in Contexts :
          WF_vars(Acquire(c)) /\ WriteFair(c) /\ WF_vars(Release(c))


(***************************************************************************)
(* The construction of a Writer: Writer { column_position: 0,              *)
(* row_position: 0, color_code: ColorCode::new(foreground, background),    *)
(* buffer: 0xb8000 }, for any two colours of enum Color.                   *)
(***************************************************************************)
Colors == Black..White

NewWriter(foreground, background) ==
    /\ color_code' = ColorCode_new(foreground, background)
    /\ column_position' = 0
    /\ row_position' = 0
    /\ op' = [name |-> "ColorCode_new", foreground |-> foreground,
              background |-> background]
    /\ pre' = [chars |-> chars, row_position |-> 0, column_position |-> 0,
               color_code |-> color_code']
    /\ trace' = <<>>
    /\ scrolls' = 0
    /\ result' = "none"
    /\ UNCHANGED <<chars, oob, calls, nops, svars>>

ColorNext == \E foreground \in Colors, background \in Colors :
                 NewWriter(foreground, background)

ColorSpec == Init /\ [][ColorNext]_vars


(***************************************************************************)
(* The claims.                                                             *)
(***************************************************************************)
Printable(b) == b >= 32 /\ b <= 126

\* The bytes of the last operation, as it handled them: one "put" or
\* "newline" event each.
Handled == SelectSeq(trace, LAMBDA e : e.k \in {"put", "newline"})

Wraps == SelectSeq(trace, LAMBDA e : e.k = "wrap")

\* The last operation was a write_byte that advanced the line on the last row.
AdvanceOnLastRow ==
    /\ op.name = "write_byte"
    /\ pre.row_position = BUFFER_HEIGHT - 1
    /\ (op.byte = NEWLINE \/ pre.column_position >= BUFFER_WIDTH)

\* C1: a line-advance on the last row (newline, or wrap) scrolls exactly
\* once; afterwards every row r < HEIGHT-1 holds what row r+1 held before,
\* and the cursor is still on the last row.
C1_ScrollContent ==
    AdvanceOnLastRow =>
        /\ scrolls = 1
        /\ row_position = BUFFER_HEIGHT - 1
        /\ \A r \in 0..(BUFFER_HEIGHT - 2), c \in Cols :
              chars[r][c] = pre.chars[r + 1][c]

\* A wrap on the last row scrolled a grid whose rows differed.
C1_Witness ==
    /\ AdvanceOnLastRow
    /\ op.byte # NEWLINE
    /\ scrolls = 1
    /\ pre.chars[0] # pre.chars[1]
    /\ pre.chars[1] # pre.chars[2]

\* C2: after a scroll (clear_row of the last row) every cell of the last
\* row, in all columns 0..WIDTH-1, is the blank cell with the attribute
\* active at clear time.
C2_RowCleared ==
    (AdvanceOnLastRow /\ op.byte = NEWLINE) =>
        \A c \in Cols : chars[BUFFER_HEIGHT - 1][c] = ScreenChar(32, color_code)

C4_WriteStringSanitizes ==
    op.name = "write_string" =>
        /\ Len(Handled) = Len(op.s)
        /\ \A i \in 1..Len(op.s) :
              /\ i <= Len(Handled)
              /\ IF op.s[i] = NEWLINE THEN Handled[i].k = "newline"
                 ELSE /\ Handled[i].k = "put"
                      /\ Handled[i].v = IF Printable(op.s[i]) THEN op.s[i]
                                        ELSE SUBSTITUTE

\* write_string of the two bytes of a UTF-8 character left two substitute
\* glyphs at the start of the row.
C4_Witness ==
    /\ op.name = "write_string"
    /\ op.s = <<195, 169>>
    /\ pre.column_position = 0
    /\ chars[row_position][0].ascii_character = SUBSTITUTE
    /\ chars[row_position][1].ascii_character = SUBSTITUTE
    /\ column_position = 2

\* C5: the cursor stays within 0..HEIGHT-1 x 0..WIDTH and every cell index
\* an operation reads or writes is inside the grid (no bounds-check panic).
C5_CursorAndBounds ==
    /\ row_position \in 0..(BUFFER_HEIGHT - 1)
    /\ column_position \in 0..BUFFER_WIDTH
    /\ ~oob
    /\ \A i \in 1..Len(trace) :
          trace[i].k \in {"put", "shift", "clear", "read"}
              => InBounds(trace[i].r, trace[i].c)

\* A write_string that wrapped on the last row, scrolled, and filled the
\* last row up to its last column.
C5_Witness ==
    /\ op.name = "write_string"
    /\ pre.row_position = BUFFER_HEIGHT - 1
    /\ pre.column_position = BUFFER_WIDTH
    /\ scrolls >= 1
    /\ row_position = BUFFER_HEIGHT - 1
    /\ column_position = BUFFER_WIDTH

\* C9: write_str returns Ok for every string in every writer state, having
\* handled every byte; no operation of the console ever reports an error.
C9_WriteStrOk ==
    /\ result # "Err"
    /\ op.name = "write_str" => (result = "Ok" /\ Len(Handled) = Len(op.s))

\* write_str of a string that needed substitution returned Ok.
C9_Witness ==
    /\ op.name = "write_str"
    /\ op.s = <<195, 169>>
    /\ result = "Ok"
    /\ Len(Handled) = 2

\* C10: a non-newline byte written at a column below WIDTH stays on its row
\* (also when it fills the last column: column becomes WIDTH, no line-advance
\* yet), a line of WIDTH bytes written from column 0 fills its row and leaves
\* column = WIDTH; the next non-newline byte, on a row above the last,
\* advances the line exactly once, lands at (row+1, 0), leaves column = 1
\* and scrolls nothing.
C10_DeferredWrap ==
    /\ (op.name = "write_byte" /\ op.byte # NEWLINE
            /\ pre.column_position < BUFFER_WIDTH) =>
          /\ row_position = pre.row_position
          /\ column_position = pre.column_position + 1
          /\ Wraps = <<>>
          /\ scrolls = 0
    /\ (op.name = "write_string" /\ op.s = Line
            /\ pre.column_position = 0) =>
          /\ row_position = pre.row_position
          /\ column_position = BUFFER_WIDTH
          /\ Wraps = <<>>
          /\ InBounds(row_position, 0)
          /\ \A c \in Cols : chars[row_position][c].ascii_character = Line[c + 1]
    /\ (op.name = "write_byte" /\ op.byte # NEWLINE
            /\ pre.column_position = BUFFER_WIDTH
            /\ pre.row_position < BUFFER_HEIGHT - 1) =>
          /\ row_position = pre.row_position + 1
          /\ column_position = 1
          /\ Len(Wraps) = 1
          /\ scrolls = 0
          /\ chars[pre.row_position + 1][0] = ScreenChar(op.byte, color_code)
          /\ \A r \in Rows, c \in Cols :
                (r # pre.row_position + 1 \/ c # 0) => chars[r][c] = pre.chars[r][c]

\* A byte written after a full row, above the last row, landed at the start
\* of the next row.
C10_Witness ==
    /\ op.name = "write_byte"
    /\ op.byte # NEWLINE
    /\ pre.column_position = BUFFER_WIDTH
    /\ pre.row_position < BUFFER_HEIGHT - 1
    /\ \A c \in Cols : pre.chars[pre.row_position][c].ascii_character = Line[c + 1]
    /\ row_position = pre.row_position + 1
    /\ column_position = 1

\* C6: the panic handler's println! always gets the WRITER lock and
\* completes (the handler reaches its loop {}), also when the panic was
\* raised while the lock was held.
C6_FaultPathCompletes ==
    \A c \in Contexts : inPanic[c] ~> (pc[c] = "halt")

\* C7: at most one context owns a guard at a time, and the writes made
\* through the WRITER are grouped by lock acquisition, in acquisition order:
\* all writes of an earlier holder precede all writes of a later one.
C7_MutualExclusionAndOrder ==
    /\ Cardinality(guards) <= 1
    /\ guards # {} => locked
    /\ \A i, j \in 1..Len(wlog) :
          i < j => /\ wlog[i].session <= wlog[j].session
                   /\ (wlog[i].session = wlog[j].session
                          => wlog[i].ctx = wlog[j].ctx)

\* Two contexts wrote through the WRITER, the second after the first had
\* released the lock.
C7_Witness ==
    /\ \E i, j \in 1..Len(wlog) :
          i < j /\ wlog[i].ctx # wlog[j].ctx /\ wlog[i].session < wlog[j].session
    /\ Len(wlog) >= 3

\* C8: every access to the grid is made by a context that owns the WRITER's
\* guard, and at most one Writer bound to 0xb8000 exists.
C8_ExclusiveOwnership ==
    /\ access.guard
    /\ instances <= 1


\* The last operation was a write_string, from column 0, of a string shorter
\* than a row that holds no newline.
ShortWrite ==
    /\ op.name = "write_string"
    /\ pre.column_position = 0
    /\ Len(op.s) < BUFFER_WIDTH
    /\ \A i \in 1..Len(op.s) : op.s[i] # NEWLINE

\* C11: write_string, from column 0, of n < WIDTH bytes without a newline
\* leaves the row where it was, leaves column = n, and stores the i-th byte
\* (as sanitized) at cell (row, i), for every i in 0..n-1.
C11_ShortWrite ==
    ShortWrite =>
        /\ row_position = pre.row_position
        /\ column_position = Len(op.s)
        /\ \A i \in 0..(Len(op.s) - 1) :
              /\ InBounds(row_position, i)
              /\ chars[row_position][i] =
                    ScreenChar(IF Printable(op.s[i + 1]) THEN op.s[i + 1]
                               ELSE SUBSTITUTE,
                               color_code)

\* "a\tb" was written from column 0 of a row below the first: 'a', the
\* substitute glyph and 'b' lie in the first three cells of that row.
C11_Witness ==
    /\ ShortWrite
    /\ op.s = <<97, 9, 98>>
    /\ row_position > 0
    /\ chars[row_position][0].ascii_character = 97
    /\ chars[row_position][1].ascii_character = SUBSTITUTE
    /\ chars[row_position][2].ascii_character = 98
    /\ column_position = 3


\* C12: for every pair of the 16 colours ColorCode::new returns the byte
\* background * 16 + foreground (background << 4 | foreground), whose low
\* nibble is the foreground and whose high nibble is the background; no
\* other pair of colours gives the same byte.
C12_AttributePacking ==
    op.name = "ColorCode_new" =>
        /\ color_code \in 0..255
        /\ color_code = op.background * 16 + op.foreground
        /\ color_code % 16 = op.foreground
        /\ color_code \div 16 = op.background
        /\ \A f \in Colors, b \in Colors :
              ColorCode_new(f, b) = color_code
                  => (f = op.foreground /\ b = op.background)

\* The attribute of the WRITER was packed: black on white is 0xF0.
C12_Witness ==
    /\ op.name = "ColorCode_new"
    /\ op.foreground = Black
    /\ op.background = White
    /\ color_code = 240


\* The writer was constructed, then write_string("AB\n") and
\* write_string("C") were called, and nothing else.
ABThenC ==
    calls = << Call("write_string", 0, <<65, 66, NEWLINE>>),
               Call("write_string", 0, <<67>>) >>

\* C13: a newline byte never becomes a cell.  write_byte('\n') leaves
\* row = min(row + 1, HEIGHT - 1) and column = 0; from a row above the last
\* it changes no cell of the grid, and it scrolls (once) if and only if the
\* row was the last one.  On a fresh writer write_string("AB\n") then
\* write_string("C") gives 'A' at (0,0), 'B' at (0,1), 'C' at (1,0), row 1
\* and column 1.
C13_LineAdvance ==
    /\ \A i \in 1..Len(trace) :
          trace[i].k \in {"put", "shift", "clear"} => trace[i].v # NEWLINE
    /\ (op.name = "write_byte" /\ op.byte = NEWLINE) =>
          /\ row_position = IF pre.row_position + 1 < BUFFER_HEIGHT - 1
                            THEN pre.row_position + 1
                            ELSE BUFFER_HEIGHT - 1
          /\ column_position = 0
          /\ \A i \in 1..Len(trace) : trace[i].k # "put"
          /\ pre.row_position < BUFFER_HEIGHT - 1 => chars = pre.chars
          /\ scrolls = IF pre.row_position = BUFFER_HEIGHT - 1 THEN 1 ELSE 0
    /\ ABThenC =>
          /\ chars[0][0].ascii_character = 65
          /\ chars[0][1].ascii_character = 66
          /\ chars[1][0].ascii_character = 67
          /\ row_position = 1
          /\ column_position = 1

\* "AB\n" and "C" were written on a fresh writer: the 'C' starts row 1.
C13_Witness ==
    /\ ABThenC
    /\ pre.row_position = 1
    /\ pre.column_position = 0
    /\ chars[1][0].ascii_character = 67
    /\ row_position = 1


\* The reads and the writes of the copy loop of shift_up, in the order the
\* last operation made them.
Copy == SelectSeq(trace, LAMBDA e : e.k \in {"read", "shift"})

\* C14: in one pass of shift_up the rows are taken in increasing order
\* 1..HEIGHT-1, row r copied into row r-1, each cell read and written at
\* once into the cell above; every cell of rows 1..HEIGHT-1 is read exactly
\* once, every cell of rows 0..HEIGHT-2 is written exactly once, and a cell
\* is read before the copy overwrites it.
C14_CopyOrder ==
    scrolls = 1 =>
        LET copy == Copy
            n == Len(copy)
            \* where in copy the cell (r, c) was read ("read") or written
            \* by the copy ("shift")
            At(kind, r, c) ==
                { i \in 1..n : copy[i].k = kind /\ copy[i].r = r /\ copy[i].c = c }
        IN /\ n = 2 * (BUFFER_HEIGHT - 1) * BUFFER_WIDTH
           /\ \A r \in 1..(BUFFER_HEIGHT - 1), c \in Cols :
                 Cardinality(At("read", r, c)) = 1
           /\ \A r \in 0..(BUFFER_HEIGHT - 2), c \in Cols :
                 Cardinality(At("shift", r, c)) = 1
           /\ \A i \in 1..n :
                 IF i % 2 = 1
                 THEN /\ copy[i].k = "read"
                      /\ copy[i].r >= 1
                      /\ op.name = "write_byte" =>
                            (InBounds(copy[i].r, copy[i].c)
                             /\ copy[i].v = pre.chars[copy[i].r][copy[i].c].ascii_character)
                 ELSE /\ copy[i].k = "shift"
                      /\ copy[i].r = copy[i - 1].r - 1
                      /\ copy[i].c = copy[i - 1].c
                      /\ copy[i].v = copy[i - 1].v
           /\ \A i \in 1..n, j \in 1..n :
                 (i < j /\ copy[i].k = copy[j].k) => copy[i].r <= copy[j].r
           /\ \A r \in 1..(BUFFER_HEIGHT - 2), c \in Cols :
                 \A i \in At("read", r, c), j \in At("shift", r, c) : i < j

\* A write_byte scrolled a grid whose rows all differed: the copy loop read
\* and wrote every cell it had to.
C14_Witness ==
    /\ scrolls = 1
    /\ op.name = "write_byte"
    /\ Len(Copy) = 2 * (BUFFER_HEIGHT - 1) * BUFFER_WIDTH
    /\ \A r \in 1..(BUFFER_HEIGHT - 1) : pre.chars[r] # pre.chars[r - 1]


\* Context c owns a guard of the WRITER that it will never drop: it left
\* write_fmt by a panic and is back at lock().
Leaked(c) == c \in guards /\ pc[c] = "lock"

\* C15: once a context holds the lock for good, no context acquires the
\* lock any more, every context waiting in lock() goes on waiting, and
\* neither the grid nor the cursor is changed again.
C15_PermanentFreeze ==
    [][ \A c \in Contexts :
          Leaked(c) =>
              /\ (c \in guards /\ pc[c] = "lock")'
              /\ locked'
              /\ acquisitions' = acquisitions
              /\ \A d \in Contexts : pc[d] = "lock" => pc'[d] = "lock"
              /\ chars' = chars
              /\ column_position' = column_position
              /\ row_position' = row_position ]_vars


\* The most buffer accesses and line events one byte can cause: a line
\* event, a scroll (the copy's reads and writes, the clearing) and the store.
StepsPerByte == 2 + 2 * (BUFFER_HEIGHT - 1) * BUFFER_WIDTH + BUFFER_WIDTH

\* Correct use has ended: a context left write_fmt by a panic and owns a
\* guard that it will never drop.
GuardLeaked == \E d \in Contexts : Leaked(d)

\* C16: every write of a finite string is done after a bounded number of
\* steps (at most StepsPerByte for each byte, wraps and scrolls included);
\* hence, as long as no guard is leaked by a panic, a context that is in a
\* print call, waiting for the lock or holding it, comes out of the call:
\* the one that waits acquires the lock, the one that holds it releases it.
C16_Termination ==
    /\ [](op.name = "write_str" => Len(trace) <= Len(op.s) * StepsPerByte)
    /\ \A c \in Contexts :
          (pc[c] \in {"lock", "fmt"})
              ~> ((pc[c] \in {"run", "halt"} /\ c \notin guards) \/ GuardLeaked)

\* A context waits in lock() while another, nobody having panicked, holds
\* the lock in the middle of a println!: it wrote a piece and has pieces
\* left.
C16_Witness ==
    \E c \in Contexts, d \in Contexts :
        /\ c # d
        /\ pc[d] = "lock"
        /\ pc[c] = "fmt"
        /\ c \in guards
        /\ \A e \in Contexts : ~inPanic[e]
        /\ op.name = "write_str"
        /\ wlog # <<>>
        /\ wlog[Len(wlog)].ctx = c
        /\ pending[c] # <<>>

\* The last operation was a write_byte of a byte other than newline that
\* did not scroll.
CharWrite == op.name = "write_byte" /\ op.byte # NEWLINE /\ scrolls = 0

\* Where that byte goes: the cursor, after the wrap if the row was full.
TargetRow ==
    IF pre.column_position >= BUFFER_WIDTH THEN pre.row_position + 1
    ELSE pre.row_position

TargetCol ==
    IF pre.column_position >= BUFFER_WIDTH THEN 0 ELSE pre.column_position

\* C17: a write_byte of a non-newline byte that does not scroll stores into
\* exactly one cell, the one at the cursor (taken after the wrap, if there
\* is one), leaves every other cell as it was, and leaves the column one
\* past that cell.
C17_CharWriteFrame ==
    CharWrite =>
        /\ InBounds(TargetRow, TargetCol)
        /\ chars[TargetRow][TargetCol] = ScreenChar(op.byte, color_code)
        /\ \A r \in Rows, c \in Cols :
              (r # TargetRow \/ c # TargetCol) => chars[r][c] = pre.chars[r][c]
        /\ Cardinality({ i \in 1..Len(trace) :
                            trace[i].k \in {"put", "shift", "clear"} }) = 1
        /\ row_position = TargetRow
        /\ column_position = TargetCol + 1

\* A byte written in the middle of a row, over a cell that held something
\* else, next to cells that are not blank.
C17_Witness ==
    /\ CharWrite
    /\ pre.column_position > 0
    /\ pre.column_position < BUFFER_WIDTH - 1
    /\ chars[TargetRow][TargetCol] # pre.chars[TargetRow][TargetCol]
    /\ pre.chars[TargetRow][TargetCol + 1].ascii_character # 32


\* C18: no operation changes the writer's color_code; every cell that
\* write_byte or clear_row stores carries it, and a cell moved by a scroll
\* keeps the attribute (and the character) that was read from its old place.
C18_AttributeConstant ==
    /\ color_code = pre.color_code
    /\ color_code \in WriterColors
    /\ \A i \in 1..Len(trace) :
          /\ trace[i].k \in {"put", "clear"} => trace[i].a = color_code
          /\ trace[i].k = "shift" =>
                /\ i > 1
                /\ trace[i - 1].k = "read"
                /\ trace[i - 1].r = trace[i].r + 1
                /\ trace[i - 1].c = trace[i].c
                /\ trace[i].a = trace[i - 1].a
          /\ (trace[i].k = "read" /\ op.name = "write_byte") =>
                /\ InBounds(trace[i].r, trace[i].c)
                /\ trace[i].a = pre.chars[trace[i].r][trace[i].c].color_code
    /\ (op.name = "write_byte" /\ scrolls = 1) =>
          \A r \in 0..(BUFFER_HEIGHT - 2), c \in Cols :
              chars[r][c].color_code = pre.chars[r + 1][c].color_code

\* A scroll moved cells whose attribute is not the writer's, and blanked
\* cells of the last row with the writer's attribute; then a byte was stored
\* with it.
C18_Witness ==
    /\ scrolls = 1
    /\ \E i \in 1..Len(trace) : trace[i].k = "shift" /\ trace[i].a # color_code
    /\ \E i \in 1..Len(trace) : trace[i].k = "clear" /\ trace[i].a = color_code
    /\ \E i \in 1..Len(trace) : trace[i].k = "put" /\ trace[i].a = color_code
    /\ chars[0][0].color_code # color_code


\* The pieces written under lock acquisition number k, in order.
Emitted(k) ==
    LET mine == SelectSeq(wlog, LAMBDA e : e.session = k)
    IN [i \in 1..Len(mine) |-> mine[i].s]

\* C19: a print! or println! writes its whole text, the trailing newline of
\* println! included, under one acquisition of the lock: what a context
\* wrote under its acquisition, followed by what it has still to write, is
\* the text of its call, so that all of the text is written when it
\* releases (which it does with nothing left to write); and the writes of
\* one acquisition are all by one context and are not interleaved with
\* those made under another acquisition.
C19_AtomicPrint ==
    /\ \A c \in Contexts :
          pc[c] = "fmt" =>
              /\ session[c] > 0
              /\ Emitted(session[c]) \o pending[c] = printing[c]
    /\ \A c \in Contexts :
          (pc[c] \in {"run", "halt"} /\ session[c] > 0) =>
              /\ Emitted(session[c]) \in Formats \cup {PanicMessage}
              /\ printing[c] = <<>>
    /\ \A i \in 1..Len(wlog), j \in 1..Len(wlog) :
          wlog[i].session = wlog[j].session => wlog[i].ctx = wlog[j].ctx
    /\ \A i \in 1..Len(wlog), j \in 1..Len(wlog), k \in 1..Len(wlog) :
          (i < j /\ j < k /\ wlog[i].session = wlog[k].session)
              => wlog[j].session = wlog[i].session

\* A println! with an argument has written its three pieces, the newline
\* last, and released; another context then took the lock and is in the
\* middle of its own text.
C19_Witness ==
    \E c \in Contexts, d \in Contexts :
        /\ c # d
        /\ pc[c] = "run"
        /\ session[c] > 0
        /\ Len(Emitted(session[c])) = 3
        /\ Emitted(session[c])[3] = <<NEWLINE>>
        /\ pc[d] = "fmt"
        /\ session[d] > session[c]
        /\ Emitted(session[d]) # <<>>
        /\ pending[d] # <<>>

=============================================================================
